---------------------------- MODULE Spec2Model ----------------------------
(***************************************************************************)
(* A model of scripts/ingestion_robot.py: the reconciliation pipeline      *)
(* process_cvm_files (merge of the three CVM tables, type coercion,        *)
(* version resolution, the three derivations and the dispatch), with the   *)
(* pandas operations it calls modelled by what they do on tables.          *)
(*                                                                         *)
(* A table (DataFrame) is a sequence of rows; a row is a function from     *)
(* column names to cells.  Every cell is a sequence of integers so that    *)
(* cells of different types can be compared:                               *)
(*     << >>              the missing value (NaN / NaT / None)             *)
(*     << 1, c1, .., cn >> a string of n characters; the digits "0".."9"   *)
(*                        are the codes 0..9, "-" is 10, a letter is 11    *)
(*     << 2, n, d >>      the number n / d (d > 0, lowest terms)           *)
(*     << 3, yyyymmdd >>  a timestamp (midnight of that day)               *)
(* The row order of a merge result and the order of equal keys after       *)
(* sort_values (kind="quicksort", not stable) are not fixed by pandas; the *)
(* model fixes the first (no claim reads it) and leaves the second open.   *)
(* The payload field asset_class (_asset_class_from_row) is not modelled.  *)
(***************************************************************************)
EXTENDS Integers, Sequences, FiniteSets, TLC

VARIABLES
    pc,               \* position in process_cvm_files
    geral,            \* the table read from path_geral    (line 191)
    ativo,            \* the table read from path_ativo    (line 192)
    complemento,      \* the table read from path_complemento (line 193)
    df,               \* the table bound to df             (lines 195-198)
    ticker_map,       \* the registry mapping              (line 200)
    current_payloads, \* line 202
    vp_history,       \* line 203
    dividend_history, \* line 204
    delivered,        \* what the dispatch calls have delivered so far
    trace,            \* history: the steps executed so far, in order
    arg_before,       \* history: the table object passed to the last stage, at the call
    arg_after         \* history: the same table object when the stage returned

vars == << pc, geral, ativo, complemento, df, ticker_map, current_payloads,
           vp_history, dividend_history, delivered, trace, arg_before, arg_after >>

-----------------------------------------------------------------------------
(* Cells *)

NaN == << >>

Str(chars) == << 1 >> \o chars

Num(n, d) == << 2, n, d >>

Date(ymd) == << 3, ymd >>

IsStr(cell) == Len(cell) > 0 /\ cell[1] = 1

IsNum(cell) == Len(cell) > 0 /\ cell[1] = 2

IsDate(cell) == Len(cell) > 0 /\ cell[1] = 3

\* pd.notna(value)
NotNa(cell) == cell # NaN

Chars(cell) == SubSeq(cell, 2, Len(cell))

IsDigits(chars) == Len(chars) > 0 /\ \A i \in 1..Len(chars) : chars[i] \in 0..9

RECURSIVE Decimal(_)
Decimal(chars) ==
    IF chars = << >> THEN 0
    ELSE 10 * Decimal(SubSeq(chars, 1, Len(chars) - 1)) + chars[Len(chars)]

\* pd.to_numeric(value, errors="coerce") on one cell: a string of digits is
\* parsed, a number stays, anything else becomes NaN.
ToNumeric(cell) ==
    IF IsNum(cell) THEN cell
    ELSE IF IsStr(cell) /\ IsDigits(Chars(cell)) THEN Num(Decimal(Chars(cell)), 1)
    ELSE NaN

DaysInMonth(y, m) ==
    IF m \in {4, 6, 9, 11} THEN 30
    ELSE IF m = 2 THEN (IF y % 4 = 0 /\ (y % 100 # 0 \/ y % 400 = 0) THEN 29 ELSE 28)
    ELSE 31

\* pd.to_datetime(value, errors="coerce") on one cell of the form YYYY-MM-DD:
\* a valid date is parsed, a timestamp stays, anything else becomes NaT.
ToDatetime(cell) ==
    IF IsDate(cell) THEN cell
    ELSE IF IsStr(cell) /\ Len(Chars(cell)) = 10
            /\ Chars(cell)[5] = 10 /\ Chars(cell)[8] = 10
            /\ IsDigits(SubSeq(Chars(cell), 1, 4))
            /\ IsDigits(SubSeq(Chars(cell), 6, 7))
            /\ IsDigits(SubSeq(Chars(cell), 9, 10))
         THEN LET y == Decimal(SubSeq(Chars(cell), 1, 4))
                  m == Decimal(SubSeq(Chars(cell), 6, 7))
                  d == Decimal(SubSeq(Chars(cell), 9, 10))
              IN  IF y >= 1 /\ m \in 1..12 /\ d >= 1 /\ d <= DaysInMonth(y, m)
                  THEN Date(y * 10000 + m * 100 + d)
                  ELSE NaN
    ELSE NaN

-----------------------------------------------------------------------------
(* Module constants *)

KEY_COLUMNS == {"CNPJ_Fundo_Classe", "Data_Referencia", "Versao"}

DATE_COLUMNS == {"Data_Referencia", "Data_Entrega"}

NUMERIC_COLUMNS == {"Patrimonio_Liquido", "Total_Investido", "Cotas_Emitidas",
                    "Numero_Cotistas", "Rendimento_Distribuido", "Rendimento_Cota",
                    "Preco_Cota"}

\* The (entity_id, reference_period) pair of a row
Pair(row) == << row["CNPJ_Fundo_Classe"], row["Data_Referencia"] >>

\* KeyOf for a join on the two identity columns only
KeyOfPair(row) == << row["CNPJ_Fundo_Classe"], row["Data_Referencia"] >>

\* The values of the join columns of a row
KeyOf(row) == << row["CNPJ_Fundo_Classe"], row["Data_Referencia"], row["Versao"] >>

-----------------------------------------------------------------------------
(* Table operations *)

RECURSIVE Concat(_)
Concat(seqs) ==
    IF seqs = << >> THEN << >> ELSE Head(seqs) \o Concat(Tail(seqs))

Matches(row, table) == SelectSeq(table, LAMBDA r : KeyOf(r) = KeyOf(row))

NaNRow(columns) == [c \in columns |-> NaN]

\* left.merge(right, on=KEY_COLUMNS, how="outer"); rightColumns are the
\* non-key columns of right, leftColumns those of left.  Rows with equal keys
\* are paired (missing key values match each other, as in pandas); a row
\* without a partner is kept with the other side's columns missing.
OuterMerge(left, leftColumns, right, rightColumns) ==
    LET Paired(l) ==
            IF Matches(l, right) = << >>
            THEN << l @@ NaNRow(rightColumns) >>
            ELSE [j \in 1..Len(Matches(l, right)) |->
                     l @@ [c \in rightColumns |-> Matches(l, right)[j][c]]]
        RightOnly == SelectSeq(right, LAMBDA r : Matches(r, left) = << >>)
    IN  Concat([i \in 1..Len(left) |-> Paired(left[i])])
        \o [j \in 1..Len(RightOnly) |-> RightOnly[j] @@ NaNRow(leftColumns)]


\* The rows of table at the positions of keep, in order
SelectRows(table, keep) ==
    LET F[i \in 0..Len(table)] ==
            IF i = 0 THEN << >>
            ELSE IF i \in keep THEN Append(F[i - 1], table[i]) ELSE F[i - 1]
    IN  F[Len(table)]

\* The contents of df after _coerce_dates(df, columns): for every column of
\* columns that the table has, df[column] = pd.to_datetime(df[column], ...);
\* the assignment is made in the table object that was passed in.
_coerce_dates(table, columns) ==
    [i \in 1..Len(table) |->
        [c \in DOMAIN table[i] |->
            IF c \in columns THEN ToDatetime(table[i][c]) ELSE table[i][c]]]

\* The contents of df after _coerce_numeric(df, columns), likewise in place
_coerce_numeric(table, columns) ==
    [i \in 1..Len(table) |->
        [c \in DOMAIN table[i] |->
            IF c \in columns THEN ToNumeric(table[i][c]) ELSE table[i][c]]]

\* df.dropna(subset=["CNPJ_Fundo_Classe", "Data_Referencia"])
DropNa(table) ==
    SelectRows(table, {i \in 1..Len(table) :
                          /\ NotNa(table[i]["CNPJ_Fundo_Classe"])
                          /\ NotNa(table[i]["Data_Referencia"])})

\* a / b < c / d for numbers with positive denominators
NumLess(x, y) == x[2] * y[3] < y[2] * x[3]

\* SortsBefore with ascending=True: the lowest version first
SortsBeforeAscending(a, b) ==
    /\ NotNa(a["Versao"])
    /\ \/ ~NotNa(b["Versao"])
       \/ NumLess(a["Versao"], b["Versao"])

\* sort_values("Versao", ascending=False, na_position="last"): row a has to
\* come before row b
SortsBefore(a, b) ==
    /\ NotNa(a["Versao"])
    /\ \/ ~NotNa(b["Versao"])
       \/ NumLess(b["Versao"], a["Versao"])

\* Every order sort_values may return: rows that compare equal (the same
\* version, or both without one) come out in any order.
RECURSIVE SortedOrders(_, _)
SortedOrders(table, remaining) ==
    IF remaining = {} THEN {<< >>}
    ELSE UNION {{<< table[i] >> \o rest : rest \in SortedOrders(table, remaining \ {i})} :
                 i \in {i \in remaining :
                          \A j \in remaining : ~SortsBefore(table[j], table[i])}}

SortValues(table) == SortedOrders(table, 1..Len(table))

\* DropDuplicates with the three KEY_COLUMNS as the subset
DropDuplicatesByKey(table) ==
    SelectRows(table, {i \in 1..Len(table) :
                          \A j \in 1..(i - 1) : KeyOf(table[j]) # KeyOf(table[i])})

\* drop_duplicates(subset=["CNPJ_Fundo_Classe", "Data_Referencia"], keep="first")
DropDuplicates(table) ==
    SelectRows(table, {i \in 1..Len(table) :
                          \A j \in 1..(i - 1) : Pair(table[j]) # Pair(table[i])})

\* Line 61: the Versao column of the table passed in, coerced in place
CoerceVersao(table) ==
    [i \in 1..Len(table) |->
        [c \in DOMAIN table[i] |->
            IF c = "Versao" THEN ToNumeric(table[i][c]) ELSE table[i][c]]]

\* Every table _filter_latest_versions(table) may return
_filter_latest_versions(table) ==
    {DropDuplicates(sorted) : sorted \in SortValues(DropNa(CoerceVersao(table)))}

-----------------------------------------------------------------------------
(* Derivations *)

\* The outcome of a float(...) that raises ValueError
Raised == << 0 >>

\* float(value) of a cell that is not missing
Float(cell) ==
    IF IsNum(cell) THEN cell
    ELSE IF IsStr(cell) /\ IsDigits(Chars(cell)) THEN Num(Decimal(Chars(cell)), 1)
    ELSE Raised

\* _get_first_value that also passes over a value of zero
_get_first_value_nonzero(row, columns) ==
    LET present == {k \in 1..Len(columns) :
                       /\ columns[k] \in DOMAIN row
                       /\ NotNa(row[columns[k]])
                       /\ Float(row[columns[k]]) # Num(0, 1)}
    IN  IF present = {} THEN NaN
        ELSE Float(row[columns[CHOOSE k \in present : \A m \in present : k <= m]])

\* The first column of columns (a sequence) that the row has with a value
\* that is not missing, as a float; None (NaN) when there is none.
_get_first_value(row, columns) ==
    LET present == {k \in 1..Len(columns) :
                       columns[k] \in DOMAIN row /\ NotNa(row[columns[k]])}
    IN  IF present = {} THEN NaN
        ELSE Float(row[columns[CHOOSE k \in present : \A m \in present : k <= m]])

\* Python truth of a float-or-None: None and 0.0 are false
Truthy(value) == IsNum(value) /\ value[2] # 0

RECURSIVE GCD(_, _)
GCD(a, b) == IF b = 0 THEN a ELSE GCD(b, a % b)

Abs(n) == IF n < 0 THEN -n ELSE n

\* x / y in lowest terms with a positive denominator; ZeroDivisionError for
\* y = 0 and TypeError for an operand that is None
Div(x, y) ==
    IF ~IsNum(x) \/ ~IsNum(y) \/ y[2] = 0 THEN Raised
    ELSE LET n == x[2] * y[3]
             d == x[3] * y[2]
             g == GCD(Abs(n), Abs(d))
             s == IF d < 0 THEN -1 ELSE 1
         IN  Num(s * (n \div g), s * (d \div g))

\* ticker_map.get(cnpj): None (NaN) for an entity the registry does not have
Ticker(map, cnpj) == IF cnpj \in DOMAIN map THEN map[cnpj] ELSE NaN

\* not ticker
NoTicker(ticker) == ticker = NaN \/ ticker = Str(<< >>)

Digits(n, width) == [k \in 1..width |-> (n \div (10 ^ (width - k))) % 10]

\* row["Data_Referencia"].date().isoformat() if pd.notna(...) else None
IsoDate(cell) ==
    IF ~NotNa(cell) THEN NaN
    ELSE Str(Digits(cell[2] \div 10000, 4) \o << 10 >>
             \o Digits((cell[2] \div 100) % 100, 2) \o << 10 >>
             \o Digits(cell[2] % 100, 2))

\* Ratio that tests the operands for None only
RatioIfNotNone(x, y) == IF IsNum(x) /\ IsNum(y) THEN Div(x, y) ELSE NaN

\* patrimonio / cotas if patrimonio and cotas else None  (lines 126, 149, 150)
Ratio(x, y) == IF Truthy(x) /\ Truthy(y) THEN Div(x, y) ELSE NaN

\* LatestDf without the filter of line 117
LatestDfUnfiltered(table) ==
    SelectRows(table, {i \in 1..Len(table) :
                          /\ NotNa(table[i]["CNPJ_Fundo_Classe"])
                          /\ NotNa(table[i]["Data_Referencia"])})

\* Lines 115-117: the rows whose Data_Referencia is the latest of their entity
LatestDf(table) ==
    SelectRows(table, {i \in 1..Len(table) :
        /\ NotNa(table[i]["CNPJ_Fundo_Classe"])
        /\ NotNa(table[i]["Data_Referencia"])
        /\ \A j \in 1..Len(table) :
              (table[j]["CNPJ_Fundo_Classe"] = table[i]["CNPJ_Fundo_Classe"]
               /\ NotNa(table[j]["Data_Referencia"]))
              => table[j]["Data_Referencia"][2] <= table[i]["Data_Referencia"][2]})

\* The rows a derivation loop does not skip at "if not ticker: continue"
WithTicker(table, map) ==
    SelectRows(table, {i \in 1..Len(table) :
                          ~NoTicker(Ticker(map, table[i]["CNPJ_Fundo_Classe"]))})

\* Lines 120-137: the rows that yield a payload, in order
CurrentRows(table, map) == WithTicker(LatestDf(table), map)

CurrentPayload(row, map) ==
    LET patrimonio == _get_first_value(row, << "Patrimonio_Liquido" >>)
        cotas == _get_first_value(row, << "Cotas_Emitidas" >>)
    IN  [ticker |-> Ticker(map, row["CNPJ_Fundo_Classe"]),
         patrimonio_liquido |-> patrimonio,
         valor_patrimonial_cota |-> Ratio(patrimonio, cotas),
         num_cotistas |-> _get_first_value(row, << "Numero_Cotistas" >>)]

_build_current_payloads(table, map) ==
    [k \in 1..Len(CurrentRows(table, map)) |->
        CurrentPayload(CurrentRows(table, map)[k], map)]

\* VpRows over the latest rows only
VpRowsLatest(table, map) == WithTicker(LatestDf(table), map)

\* Lines 142-163: the rows that yield a valuation record, in order
VpRows(table, map) == WithTicker(table, map)

VpRecord(row, map) ==
    LET patrimonio == _get_first_value(row, << "Patrimonio_Liquido" >>)
        cotas == _get_first_value(row, << "Cotas_Emitidas" >>)
        price == _get_first_value(row, << "Preco_Cota" >>)
        vpa == Ratio(patrimonio, cotas)
    IN  [ticker |-> Ticker(map, row["CNPJ_Fundo_Classe"]),
         data_referencia |-> IsoDate(row["Data_Referencia"]),
         patrimonio_liquido |-> patrimonio,
         cotas_emitidas |-> cotas,
         valor_patrimonial_cota |-> vpa,
         p_vp |-> Ratio(price, vpa)]

_build_vp_history(table, map) ==
    [k \in 1..Len(VpRows(table, map)) |-> VpRecord(VpRows(table, map)[k], map)]

dividend_columns == << "Rendimento_Distribuido", "Rendimento_Cota", "Dividendos_Distribuidos" >>

\* Line 173
Dividend(row) == _get_first_value(row, dividend_columns)

\* Lines 169-185: the rows that yield a dividend record, in order
DividendRows(table, map) ==
    SelectRows(WithTicker(table, map),
               {i \in 1..Len(WithTicker(table, map)) :
                   Truthy(Dividend(WithTicker(table, map)[i]))})

DividendRecord(row, map) ==
    [ticker |-> Ticker(map, row["CNPJ_Fundo_Classe"]),
     data_referencia |-> IsoDate(row["Data_Referencia"]),
     dividendo |-> Dividend(row)]

_build_dividend_history(table, map) ==
    [k \in 1..Len(DividendRows(table, map)) |->
        DividendRecord(DividendRows(table, map)[k], map)]

\* float(...) raises in _get_first_value for some row the loop reaches and
\* some candidate list the loop body looks up
DerivationRaises(rows, lookups) ==
    \E i \in 1..Len(rows) : \E columns \in lookups :
        _get_first_value(rows[i], columns) = Raised

-----------------------------------------------------------------------------
(* Inputs *)

\* The largest number of rows the three input files hold together
MaxInputRows == 3

\* The largest number of rows of a table handed to _filter_latest_versions
MaxRows == 3

\* The largest number of rows of a resolved table handed to the derivations
MaxResolved == 3

CnpjA == Str(<< 1, 1 >>)

CnpjB == Str(<< 2, 2 >>)

\* "2024-01-31"
Jan31 == Str(<< 2, 0, 2, 4, 10, 0, 1, 10, 3, 1 >>)

\* "2024-02-29"
Feb29 == Str(<< 2, 0, 2, 4, 10, 0, 2, 10, 2, 9 >>)

\* "2024-02-30", which is no date
Feb30 == Str(<< 2, 0, 2, 4, 10, 0, 2, 10, 3, 0 >>)

\* The non-key columns of the three input files
GeralColumns == {"Patrimonio_Liquido"}

AtivoColumns == {"Cotas_Emitidas"}

ComplementoColumns == {"Rendimento_Distribuido"}

RawKey(cnpj, date, versao) ==
    [CNPJ_Fundo_Classe |-> cnpj, Data_Referencia |-> date, Versao |-> versao]

\* The key cells of the rows of an input file, as read_csv(dtype=str) yields
\* them: strings, or NaN for an empty cell.  "1" and "01" are one version
\* written in two ways.
RawKeys ==
    {RawKey(CnpjA, Jan31, Str(<< 1 >>)),
     RawKey(CnpjA, Jan31, Str(<< 0, 1 >>)),
     RawKey(CnpjA, Jan31, NaN),
     RawKey(CnpjB, Feb29, Str(<< 3 >>)),
     RawKey(CnpjA, Feb30, Str(<< 1 >>)),
     RawKey(NaN, Jan31, Str(<< 1 >>))}

GeralRows == {k @@ [c \in GeralColumns |-> Str(<< 1, 0, 0, 0 >>)] : k \in RawKeys}

AtivoRows == {k @@ [c \in AtivoColumns |-> Str(<< 1, 0, 0 >>)] : k \in RawKeys}

ComplementoRows == {k @@ [c \in ComplementoColumns |-> Str(<< 5 >>)] : k \in RawKeys}

\* The mappings _fetch_registry_mapping may return: cnpj -> ticker for the
\* registry entries that have both
TickerMaps ==
    UNION {[entities -> {Str(<< 11, 11 >>)}] : entities \in SUBSET {CnpjA, CnpjB}}

-----------------------------------------------------------------------------
(* process_cvm_files *)

\* The state after lines 189-193: the three files are read
Init ==
    /\ pc = "merge"
    /\ \E ng \in 0..MaxInputRows :
       \E na \in 0..(MaxInputRows - ng) :
       \E nc \in 0..(MaxInputRows - ng - na) :
          /\ geral \in [1..ng -> GeralRows]
          /\ ativo \in [1..na -> AtivoRows]
          /\ complemento \in [1..nc -> ComplementoRows]
    /\ df = << >>
    /\ ticker_map = << >>
    /\ current_payloads = << >>
    /\ vp_history = << >>
    /\ dividend_history = << >>
    /\ delivered = [current |-> 0, metrics |-> FALSE, dividends |-> FALSE]
    /\ trace = << >>
    /\ arg_before = << >>
    /\ arg_after = << >>

\* Merge with the three tables coerced before they are joined
MergeCoerced ==
    /\ pc = "merge"
    /\ df' = LET Coerced(table) ==
                     _coerce_numeric(_coerce_dates(table, DATE_COLUMNS), NUMERIC_COLUMNS)
             IN  OuterMerge(OuterMerge(Coerced(geral), GeralColumns,
                                       Coerced(ativo), AtivoColumns),
                            GeralColumns \cup AtivoColumns,
                            Coerced(complemento), ComplementoColumns)
    /\ pc' = "coerce_dates"
    /\ trace' = Append(trace, "merge")
    /\ UNCHANGED << geral, ativo, complemento, ticker_map, current_payloads,
                    vp_history, dividend_history, delivered, arg_before, arg_after >>

\* Line 195
Merge ==
    /\ pc = "merge"
    /\ df' = OuterMerge(OuterMerge(geral, GeralColumns, ativo, AtivoColumns),
                        GeralColumns \cup AtivoColumns,
                        complemento, ComplementoColumns)
    /\ pc' = "coerce_dates"
    /\ trace' = Append(trace, "merge")
    /\ UNCHANGED << geral, ativo, complemento, ticker_map, current_payloads,
                    vp_history, dividend_history, delivered, arg_before, arg_after >>

\* Line 196: df is changed in place and returned
CoerceDates ==
    /\ pc = "coerce_dates"
    /\ arg_before' = df
    /\ arg_after' = _coerce_dates(df, DATE_COLUMNS)
    /\ df' = _coerce_dates(df, DATE_COLUMNS)
    /\ pc' = "coerce_numeric"
    /\ trace' = Append(trace, "coerce_dates")
    /\ UNCHANGED << geral, ativo, complemento, ticker_map, current_payloads,
                    vp_history, dividend_history, delivered >>

\* Line 197: df is changed in place and returned
CoerceNumeric ==
    /\ pc = "coerce_numeric"
    /\ arg_before' = df
    /\ arg_after' = _coerce_numeric(df, NUMERIC_COLUMNS)
    /\ df' = _coerce_numeric(df, NUMERIC_COLUMNS)
    /\ pc' = "filter"
    /\ trace' = Append(trace, "coerce_numeric")
    /\ UNCHANGED << geral, ativo, complemento, ticker_map, current_payloads,
                    vp_history, dividend_history, delivered >>

\* Line 198: the Versao column of the table passed in is coerced in place
\* (line 61); dropna, sort_values and drop_duplicates build new tables.
FilterLatestVersions ==
    /\ pc = "filter"
    /\ arg_before' = df
    /\ arg_after' = CoerceVersao(df)
    /\ df' \in _filter_latest_versions(df)
    /\ pc' = "fetch"
    /\ trace' = Append(trace, "filter_latest_versions")
    /\ UNCHANGED << geral, ativo, complemento, ticker_map, current_payloads,
                    vp_history, dividend_history, delivered >>

\* Line 200: the request may fail (raise_for_status)
FetchRegistryMapping ==
    /\ pc = "fetch"
    /\ \E ok \in BOOLEAN :
          IF ok
          THEN /\ ticker_map' \in TickerMaps
               /\ pc' = "build_current"
          ELSE /\ ticker_map' = ticker_map
               /\ pc' = "failed"
    /\ trace' = Append(trace, "fetch_registry_mapping")
    /\ UNCHANGED << geral, ativo, complemento, df, current_payloads, vp_history,
                    dividend_history, delivered, arg_before, arg_after >>

\* Line 202
BuildCurrentPayloads ==
    /\ pc = "build_current"
    /\ arg_before' = df
    /\ arg_after' = df
    /\ IF DerivationRaises(CurrentRows(df, ticker_map),
                           {<< "Patrimonio_Liquido" >>, << "Cotas_Emitidas" >>,
                            << "Numero_Cotistas" >>})
       THEN /\ pc' = "failed"
            /\ current_payloads' = current_payloads
       ELSE /\ pc' = "build_vp"
            /\ current_payloads' = _build_current_payloads(df, ticker_map)
    /\ trace' = Append(trace, "build_current_payloads")
    /\ UNCHANGED << geral, ativo, complemento, df, ticker_map, vp_history,
                    dividend_history, delivered >>

\* Line 203
BuildVpHistory ==
    /\ pc = "build_vp"
    /\ arg_before' = df
    /\ arg_after' = df
    /\ IF DerivationRaises(VpRows(df, ticker_map),
                           {<< "Patrimonio_Liquido" >>, << "Cotas_Emitidas" >>,
                            << "Preco_Cota" >>})
       THEN /\ pc' = "failed"
            /\ vp_history' = vp_history
       ELSE /\ pc' = "build_dividend"
            /\ vp_history' = _build_vp_history(df, ticker_map)
    /\ trace' = Append(trace, "build_vp_history")
    /\ UNCHANGED << geral, ativo, complemento, df, ticker_map, current_payloads,
                    dividend_history, delivered >>

\* Line 204
BuildDividendHistory ==
    /\ pc = "build_dividend"
    /\ arg_before' = df
    /\ arg_after' = df
    /\ IF DerivationRaises(WithTicker(df, ticker_map), {dividend_columns})
       THEN /\ pc' = "failed"
            /\ dividend_history' = dividend_history
       ELSE /\ pc' = "post_current"
            /\ dividend_history' = _build_dividend_history(df, ticker_map)
    /\ trace' = Append(trace, "build_dividend_history")
    /\ UNCHANGED << geral, ativo, complemento, df, ticker_map, current_payloads,
                    vp_history, delivered >>

\* PostCurrentData placed before line 204
PostCurrentDataEarly ==
    /\ pc = "build_dividend"
    /\ \A i \in 1..Len(trace) : trace[i] # "post_current_data"
    /\ \E sent \in 0..Len(current_payloads) :
          /\ delivered' = [delivered EXCEPT !.current = sent]
          /\ pc' = IF sent = Len(current_payloads) THEN "build_dividend" ELSE "failed"
    /\ trace' = Append(trace, "post_current_data")
    /\ UNCHANGED << geral, ativo, complemento, df, ticker_map, current_payloads,
                    vp_history, dividend_history, arg_before, arg_after >>

\* Line 206: one request per payload; the first that fails ends the run
PostCurrentData ==
    /\ pc = "post_current"
    /\ \E sent \in 0..Len(current_payloads) :
          /\ delivered' = [delivered EXCEPT !.current = sent]
          /\ pc' = IF sent = Len(current_payloads) THEN "post_vp" ELSE "failed"
    /\ trace' = Append(trace, "post_current_data")
    /\ UNCHANGED << geral, ativo, complemento, df, ticker_map, current_payloads,
                    vp_history, dividend_history, arg_before, arg_after >>

\* Line 207: one request for the batch, none for an empty batch
PostVpHistory ==
    /\ pc = "post_vp"
    /\ \E ok \in (IF vp_history = << >> THEN {TRUE} ELSE BOOLEAN) :
          /\ delivered' = [delivered EXCEPT !.metrics = ok /\ vp_history # << >>]
          /\ pc' = IF ok THEN "post_dividend" ELSE "failed"
    /\ trace' = Append(trace, "post_vp_history")
    /\ UNCHANGED << geral, ativo, complemento, df, ticker_map, current_payloads,
                    vp_history, dividend_history, arg_before, arg_after >>

\* Line 208
PostDividendHistory ==
    /\ pc = "post_dividend"
    /\ \E ok \in (IF dividend_history = << >> THEN {TRUE} ELSE BOOLEAN) :
          /\ delivered' = [delivered EXCEPT !.dividends = ok /\ dividend_history # << >>]
          /\ pc' = IF ok THEN "done" ELSE "failed"
    /\ trace' = Append(trace, "post_dividend_history")
    /\ UNCHANGED << geral, ativo, complemento, df, ticker_map, current_payloads,
                    vp_history, dividend_history, arg_before, arg_after >>

Next ==
    \/ Merge
    \/ CoerceDates
    \/ CoerceNumeric
    \/ FilterLatestVersions
    \/ FetchRegistryMapping
    \/ BuildCurrentPayloads
    \/ BuildVpHistory
    \/ BuildDividendHistory
    \/ PostCurrentData
    \/ PostVpHistory
    \/ PostDividendHistory

Spec == Init /\ [][Next]_vars

-----------------------------------------------------------------------------
(* _filter_latest_versions on its own *)

\* The rows of a table as line 198 finds it: dates coerced (NaT for a
\* malformed one), Versao still as read.  "x" is no number.
ResolverRows ==
    {RawKey(k[1], k[2], v) @@ [Patrimonio_Liquido |-> Num(10, 1)] :
        k \in {<< CnpjA, Date(20240131) >>, << CnpjB, Date(20240131) >>,
               << NaN, Date(20240131) >>, << CnpjA, NaN >>},
        v \in {NaN, Str(<< 1 >>), Str(<< 3 >>), Str(<< 11 >>)}}

InitResolver ==
    /\ pc = "filter"
    /\ df \in UNION {[1..n -> ResolverRows] : n \in 0..MaxRows}
    /\ geral = << >>
    /\ ativo = << >>
    /\ complemento = << >>
    /\ ticker_map = << >>
    /\ current_payloads = << >>
    /\ vp_history = << >>
    /\ dividend_history = << >>
    /\ delivered = [current |-> 0, metrics |-> FALSE, dividends |-> FALSE]
    /\ trace = << >>
    /\ arg_before = << >>
    /\ arg_after = << >>

SpecResolver == InitResolver /\ [][FilterLatestVersions]_vars

-----------------------------------------------------------------------------
(* The derivations on their own *)

ResolvedKey(cnpj, ymd) == RawKey(cnpj, Date(ymd), Num(1, 1))

Amounts == {NaN, Num(0, 1), Num(10, 1), Num(12, 1), Num(100, 1),
            Num(100000, 1), Num(1000000, 1)}

\* One resolved row with the operands of the two ratios
RatioTables ==
    {<< ResolvedKey(CnpjA, 20240131)
        @@ [Patrimonio_Liquido |-> p, Cotas_Emitidas |-> c, Preco_Cota |-> v] >> :
        p \in Amounts, c \in Amounts, v \in {NaN, Num(0, 1), Num(12, 1)}}

\* One resolved row with the three dividend candidates; Dividendos_Distribuidos
\* is no column of NUMERIC_COLUMNS and keeps the string that was read.
DividendTables ==
    {<< ResolvedKey(CnpjA, 20240131)
        @@ [Rendimento_Distribuido |-> a, Rendimento_Cota |-> b,
            Dividendos_Distribuidos |-> c] >> :
        a \in {NaN, Num(0, 1), Num(1, 2), Num(5, 1)},
        b \in {NaN, Num(0, 1), Num(1, 2), Num(5, 1)},
        c \in {NaN, Str(<< 0 >>), Str(<< 7 >>), Str(<< 11 >>)}}

ResolvedRows ==
    {ResolvedKey(e, d) @@ [Patrimonio_Liquido |-> p, Rendimento_Distribuido |-> Num(1, 2)] :
        e \in {CnpjA, CnpjB}, d \in {20240131, 20240229},
        p \in {NaN, Num(10, 1), Num(20, 1)}}

\* Resolved tables of several rows: one row per (entity, period)
ResolvedTables ==
    {t \in UNION {[1..n -> ResolvedRows] : n \in 0..MaxResolved} :
        \A i, j \in 1..Len(t) : i # j => Pair(t[i]) # Pair(t[j])}

\* The state after line 200, for a resolved table and a registry mapping
InitDerive ==
    /\ pc = "build_current"
    /\ df \in RatioTables \cup DividendTables \cup ResolvedTables
    /\ ticker_map \in TickerMaps
    /\ geral = << >>
    /\ ativo = << >>
    /\ complemento = << >>
    /\ current_payloads = << >>
    /\ vp_history = << >>
    /\ dividend_history = << >>
    /\ delivered = [current |-> 0, metrics |-> FALSE, dividends |-> FALSE]
    /\ trace = << >>
    /\ arg_before = << >>
    /\ arg_after = << >>

NextDerive ==
    \/ BuildCurrentPayloads
    \/ BuildVpHistory
    \/ BuildDividendHistory

SpecDerive == InitDerive /\ [][NextDerive]_vars

-----------------------------------------------------------------------------
(* Properties *)

\* The step has been executed
Did(step) == \E i \in 1..Len(trace) : trace[i] = step

HasPair(row) == NotNa(row["CNPJ_Fundo_Classe"]) /\ NotNa(row["Data_Referencia"])

\* C1: the table _filter_latest_versions returns has no two rows with the
\* same (CNPJ_Fundo_Classe, Data_Referencia) pair.
ResolvedPairsUnique ==
    Did("filter_latest_versions") =>
        \A i, j \in 1..Len(df) : Pair(df[i]) = Pair(df[j]) => i = j

\* C1 witness: three rows went in, two of them for one pair, and two came out.
ResolvedPairsUniqueWitness ==
    /\ Did("filter_latest_versions")
    /\ Len(arg_before) = 3
    /\ \E i, j \in 1..Len(arg_before) :
          i # j /\ HasPair(arg_before[i]) /\ Pair(arg_before[i]) = Pair(arg_before[j])
    /\ Len(df) = 2

\* C2: for every pair that has a row with both identity fields, the row kept
\* is one of the pair's rows, its version is numeric as soon as one of the
\* pair's rows has a numeric version, and no row of the pair has a higher one.
HighestVersionKept ==
    Did("filter_latest_versions") =>
        \A i \in 1..Len(arg_before) :
            HasPair(arg_before[i]) =>
                \E k \in 1..Len(df) :
                    /\ Pair(df[k]) = Pair(arg_before[i])
                    /\ \E j \in 1..Len(arg_before) :
                          /\ Pair(arg_before[j]) = Pair(df[k])
                          /\ ToNumeric(arg_before[j]["Versao"]) = df[k]["Versao"]
                    /\ IsNum(ToNumeric(arg_before[i]["Versao"])) =>
                          /\ IsNum(df[k]["Versao"])
                          /\ df[k]["Versao"][2] >= ToNumeric(arg_before[i]["Versao"])[2]

\* C2 witness: the versions 1, 3 and none of one pair, in this order; the row
\* with version 3 is kept.
HighestVersionKeptWitness ==
    /\ Did("filter_latest_versions")
    /\ Len(arg_before) = 3
    /\ \A i \in 1..3 : Pair(arg_before[i]) = << CnpjA, Date(20240131) >>
    /\ arg_before[1]["Versao"] = Str(<< 1 >>)
    /\ arg_before[2]["Versao"] = Str(<< 3 >>)
    /\ arg_before[3]["Versao"] = NaN
    /\ Len(df) = 1
    /\ df[1]["Versao"] = Num(3, 1)

\* The rows of df whose entity the registry maps to a ticker
Mapped(i) == ~NoTicker(Ticker(ticker_map, df[i]["CNPJ_Fundo_Classe"]))

\* The value of a candidate column of a row as the derivations read it: NaN
\* for a column the row lacks or a missing value
Candidate(row, column) ==
    IF column \in DOMAIN row /\ NotNa(row[column]) THEN Float(row[column]) ELSE NaN

PresentNonzero(value) == IsNum(value) /\ value[2] # 0

\* The first candidate, in the order of dividend_columns, that is present and
\* not zero; NaN when there is none
FirstNonzeroCandidate(row) ==
    IF PresentNonzero(Candidate(row, "Rendimento_Distribuido"))
    THEN Candidate(row, "Rendimento_Distribuido")
    ELSE IF PresentNonzero(Candidate(row, "Rendimento_Cota"))
    THEN Candidate(row, "Rendimento_Cota")
    ELSE IF PresentNonzero(Candidate(row, "Dividendos_Distribuidos"))
    THEN Candidate(row, "Dividendos_Distribuidos")
    ELSE NaN

\* The first candidate, in the order of dividend_columns, that is present
\* (zero or not); NaN when there is none
FirstPresentCandidate(row) ==
    IF Candidate(row, "Rendimento_Distribuido") # NaN
    THEN Candidate(row, "Rendimento_Distribuido")
    ELSE IF Candidate(row, "Rendimento_Cota") # NaN
    THEN Candidate(row, "Rendimento_Cota")
    ELSE Candidate(row, "Dividendos_Distribuidos")

DividendsBuilt == Did("build_dividend_history") /\ pc # "failed"

ExpectedDividend(i, value) ==
    [ticker |-> Ticker(ticker_map, df[i]["CNPJ_Fundo_Classe"]),
     data_referencia |-> IsoDate(df[i]["Data_Referencia"]),
     dividendo |-> value]

\* C3 as claimed, for the rows of entities that have a ticker: a row with a
\* candidate that is present and not zero yields a dividend record that
\* carries the first such candidate.
DividendSkipsZeroCandidates ==
    DividendsBuilt =>
        \A i \in 1..Len(df) :
            (Mapped(i) /\ FirstNonzeroCandidate(df[i]) # NaN) =>
                \E k \in 1..Len(dividend_history) :
                    dividend_history[k] = ExpectedDividend(i, FirstNonzeroCandidate(df[i]))

\* The rows that yield a dividend record: the entity has a ticker and the
\* first candidate that is present is not zero
Emits(i) == Mapped(i) /\ PresentNonzero(FirstPresentCandidate(df[i]))

\* C3 amended: the dividend records are, in row order, those of the rows of
\* entities with a ticker whose first PRESENT candidate is not zero, each with
\* that candidate as its dividend; a zero in an earlier candidate is not
\* passed over, it suppresses the record.
DividendFromFirstPresentCandidate ==
    DividendsBuilt =>
        /\ Len(dividend_history) = Cardinality({i \in 1..Len(df) : Emits(i)})
        /\ \A i \in 1..Len(df) :
              Emits(i) =>
                  dividend_history[Cardinality({j \in 1..i : Emits(j)})]
                      = ExpectedDividend(i, FirstPresentCandidate(df[i]))

\* C3 witness: Rendimento_Distribuido = 0 and Rendimento_Cota = 0.5 for an
\* entity with a ticker, and no dividend record.
DividendFromFirstPresentCandidateWitness ==
    /\ DividendsBuilt
    /\ Len(df) = 1
    /\ Mapped(1)
    /\ "Rendimento_Cota" \in DOMAIN df[1]
    /\ df[1]["Rendimento_Distribuido"] = Num(0, 1)
    /\ df[1]["Rendimento_Cota"] = Num(1, 2)
    /\ dividend_history = << >>

\* q is the quotient x / y
IsQuotient(q, x, y) == IsNum(q) /\ q[2] * y[2] * x[3] = x[2] * q[3] * y[3]

\* The null-safe ratio rule: x / y when both are present and not zero, absent
\* otherwise
ObeysRatioRule(q, x, y) ==
    IF PresentNonzero(x) /\ PresentNonzero(y) THEN IsQuotient(q, x, y) ELSE q = NaN

\* C4: in every snapshot and every valuation record unit_book_value obeys the
\* ratio rule for net_asset_value and units_issued of its row, and in every
\* valuation record price_to_book obeys it for unit_price and unit_book_value.
NullSafeRatios ==
    (Did("build_vp_history") /\ pc # "failed") =>
        /\ \A k \in 1..Len(current_payloads) :
              ObeysRatioRule(current_payloads[k].valor_patrimonial_cota,
                             Candidate(CurrentRows(df, ticker_map)[k], "Patrimonio_Liquido"),
                             Candidate(CurrentRows(df, ticker_map)[k], "Cotas_Emitidas"))
        /\ \A k \in 1..Len(vp_history) :
              /\ ObeysRatioRule(vp_history[k].valor_patrimonial_cota,
                                Candidate(VpRows(df, ticker_map)[k], "Patrimonio_Liquido"),
                                Candidate(VpRows(df, ticker_map)[k], "Cotas_Emitidas"))
              /\ ObeysRatioRule(vp_history[k].p_vp,
                                Candidate(VpRows(df, ticker_map)[k], "Preco_Cota"),
                                vp_history[k].valor_patrimonial_cota)

\* C4 witness: 1000000 / 100000 = 10 in both records, and 12 / 10 = 6 / 5.
NullSafeRatiosWitness ==
    /\ Did("build_vp_history")
    /\ Len(df) = 1
    /\ "Preco_Cota" \in DOMAIN df[1]
    /\ df[1]["Patrimonio_Liquido"] = Num(1000000, 1)
    /\ df[1]["Cotas_Emitidas"] = Num(100000, 1)
    /\ df[1]["Preco_Cota"] = Num(12, 1)
    /\ Len(current_payloads) = 1
    /\ current_payloads[1].valor_patrimonial_cota = Num(10, 1)
    /\ Len(vp_history) = 1
    /\ vp_history[1].valor_patrimonial_cota = Num(10, 1)
    /\ vp_history[1].p_vp = Num(6, 5)

\* The entities of df that have a ticker
MappedEntities == {df[i]["CNPJ_Fundo_Classe"] : i \in {j \in 1..Len(df) : Mapped(j)}}

\* The row of the entity with its latest reference period
LatestRow(entity) ==
    df[CHOOSE i \in 1..Len(df) :
          /\ df[i]["CNPJ_Fundo_Classe"] = entity
          /\ \A j \in 1..Len(df) :
                df[j]["CNPJ_Fundo_Classe"] = entity
                => df[j]["Data_Referencia"][2] <= df[i]["Data_Referencia"][2]]

\* C7: the snapshot records are, one for one, the records computed from the
\* latest row of every entity (that has a ticker): one per entity, none from
\* an older period.
SnapshotFromLatestPeriod ==
    (Did("build_current_payloads") /\ pc # "failed") =>
        \A p \in {current_payloads[k] : k \in 1..Len(current_payloads)}
                 \cup {CurrentPayload(LatestRow(e), ticker_map) : e \in MappedEntities} :
            Cardinality({k \in 1..Len(current_payloads) : current_payloads[k] = p})
                = Cardinality({e \in MappedEntities :
                                  CurrentPayload(LatestRow(e), ticker_map) = p})

\* C7 witness: an entity with two periods and different net asset values; the
\* one snapshot record carries the value of the later period.
SnapshotFromLatestPeriodWitness ==
    /\ Did("build_current_payloads")
    /\ Len(current_payloads) = 1
    /\ \E i, j \in 1..Len(df) :
          /\ Mapped(i)
          /\ df[i]["CNPJ_Fundo_Classe"] = df[j]["CNPJ_Fundo_Classe"]
          /\ df[i]["Data_Referencia"][2] < df[j]["Data_Referencia"][2]
          /\ "Cotas_Emitidas" \notin DOMAIN df[i]
          /\ df[i]["Patrimonio_Liquido"] = Num(10, 1)
          /\ df[j]["Patrimonio_Liquido"] = Num(20, 1)
          /\ current_payloads[1].patrimonio_liquido = Num(20, 1)

ValuationsBuilt == Did("build_vp_history") /\ pc # "failed"

\* C8 as claimed: as many valuation records as resolved keys, as many
\* snapshot records as entities.
OneValuationPerResolvedKey ==
    ValuationsBuilt =>
        /\ Len(vp_history) = Cardinality({Pair(df[i]) : i \in 1..Len(df)})
        /\ Len(current_payloads)
              = Cardinality({df[i]["CNPJ_Fundo_Classe"] : i \in 1..Len(df)})

\* C8 amended: one valuation record for every resolved record of an entity
\* that has a ticker in the registry mapping, none for the others; as many
\* snapshot records as entities with a ticker.
OneValuationPerMappedKey ==
    ValuationsBuilt =>
        /\ Len(vp_history)
              = Cardinality({Pair(df[i]) : i \in {j \in 1..Len(df) : Mapped(j)}})
        /\ \A i \in 1..Len(df) :
              Mapped(i) =>
                  \E k \in 1..Len(vp_history) :
                      /\ vp_history[k].ticker = ticker_map[df[i]["CNPJ_Fundo_Classe"]]
                      /\ vp_history[k].data_referencia = IsoDate(df[i]["Data_Referencia"])
                      /\ vp_history[k].patrimonio_liquido
                            = Candidate(df[i], "Patrimonio_Liquido")
        /\ Len(current_payloads) = Cardinality(MappedEntities)

\* C8 witness: two periods of an entity with a ticker and a row of an entity
\* without one: two valuation records for three resolved records.
OneValuationPerMappedKeyWitness ==
    /\ ValuationsBuilt
    /\ Len(df) = 3
    /\ Len(vp_history) = 2
    /\ Len(current_payloads) = 1
    /\ \E i, j, u \in 1..Len(df) :
          /\ i # j
          /\ Mapped(i)
          /\ df[i]["CNPJ_Fundo_Classe"] = df[j]["CNPJ_Fundo_Classe"]
          /\ ~Mapped(u)
          /\ df[i]["Patrimonio_Liquido"] = NaN

\* The three input tables with their non-key columns
Inputs ==
    << << geral, GeralColumns >>, << ativo, AtivoColumns >>,
       << complemento, ComplementoColumns >> >>

Triple(row) == << row["CNPJ_Fundo_Classe"], row["Data_Referencia"], row["Versao"] >>

\* The key of a row that the join is claimed to be made on: the pair, or the
\* three key columns
JoinKey(row, withVersion) == IF withVersion THEN Triple(row) ELSE Pair(row)

\* The merged row carries, for every input table, the non-key cells of one of
\* the table's rows with the key or, when the table has none, missing values
Combines(row, key, withVersion) ==
    \A n \in 1..3 :
        IF \E i \in 1..Len(Inputs[n][1]) : JoinKey(Inputs[n][1][i], withVersion) = key
        THEN \E i \in 1..Len(Inputs[n][1]) :
                /\ JoinKey(Inputs[n][1][i], withVersion) = key
                /\ \A c \in Inputs[n][2] : row[c] = Inputs[n][1][i][c]
        ELSE \A c \in Inputs[n][2] : row[c] = NaN

JustMerged == pc = "coerce_dates"

\* C5 as claimed: for every (entity_id, reference_period) pair of an input
\* table the merged table has a row of the pair that combines all the tables
\* that have the pair, whatever their versions.
FullOuterJoinOnPair ==
    JustMerged =>
        \A n \in 1..3 : \A i \in 1..Len(Inputs[n][1]) :
            \E k \in 1..Len(df) :
                /\ Pair(df[k]) = Pair(Inputs[n][1][i])
                /\ Combines(df[k], Pair(Inputs[n][1][i]), FALSE)

\* C5 amended: the join is on the three KEY_COLUMNS, version included: for
\* every (entity_id, reference_period, version) triple of an input table the
\* merged table has a row of the triple that combines the tables that have
\* the triple and has the columns of the others missing.
FullOuterJoinOnKeyColumns ==
    JustMerged =>
        \A n \in 1..3 : \A i \in 1..Len(Inputs[n][1]) :
            \E k \in 1..Len(df) :
                /\ Triple(df[k]) = Triple(Inputs[n][1][i])
                /\ Combines(df[k], Triple(Inputs[n][1][i]), TRUE)

\* C5 witness: geral and ativo have the same pair under different versions,
\* complemento has no row; the merged table has two half-filled rows.
FullOuterJoinOnKeyColumnsWitness ==
    /\ JustMerged
    /\ Len(geral) = 1
    /\ Len(ativo) = 1
    /\ complemento = << >>
    /\ Pair(geral[1]) = Pair(ativo[1])
    /\ geral[1]["Versao"] = Str(<< 1 >>)
    /\ ativo[1]["Versao"] = NaN
    /\ Len(df) = 2
    /\ df[1]["Patrimonio_Liquido"] # NaN /\ df[1]["Cotas_Emitidas"] = NaN
    /\ df[2]["Patrimonio_Liquido"] = NaN /\ df[2]["Cotas_Emitidas"] # NaN

BuildSteps == {"build_current_payloads", "build_vp_history", "build_dividend_history"}

PostSteps == {"post_current_data", "post_vp_history", "post_dividend_history"}

\* C6: when a dispatch call is made the three derivations have been made,
\* none is made after it, and the three batches stay as they were built.
DerivationsBeforeDispatch ==
    /\ \A i \in 1..Len(trace) :
          trace[i] \in PostSteps =>
              /\ \A b \in BuildSteps : \E j \in 1..(i - 1) : trace[j] = b
              /\ \A j \in (i + 1)..Len(trace) : trace[j] \notin BuildSteps
    /\ (\E i \in 1..Len(trace) : trace[i] \in PostSteps) =>
          /\ current_payloads = _build_current_payloads(df, ticker_map)
          /\ vp_history = _build_vp_history(df, ticker_map)
          /\ dividend_history = _build_dividend_history(df, ticker_map)

\* C6 witness: the second dispatch call failed after the first delivered its
\* payloads; the three batches are there.
DerivationsBeforeDispatchWitness ==
    /\ pc = "failed"
    /\ trace[Len(trace)] = "post_vp_history"
    /\ Len(current_payloads) = 2
    /\ delivered.current = 2
    /\ ~delivered.metrics
    /\ vp_history # << >>
    /\ dividend_history # << >>

\* C9 as claimed: the table passed to a stage is, when the stage returns, as
\* it was at the call.
StageLeavesInputUnchanged == arg_after = arg_before

StageOrder ==
    << "merge", "coerce_dates", "coerce_numeric", "filter_latest_versions",
       "fetch_registry_mapping", "build_current_payloads", "build_vp_history",
       "build_dividend_history", "post_current_data", "post_vp_history",
       "post_dividend_history" >>

\* C10 as claimed: the tables are type-coerced before they are joined.
CoercionBeforeMerge ==
    \A i \in 1..Len(trace) :
        trace[i] = "merge" =>
            /\ \E j \in 1..(i - 1) : trace[j] = "coerce_dates"
            /\ \E j \in 1..(i - 1) : trace[j] = "coerce_numeric"

\* C10 amended: the steps run in the order merge, coercion of the dates,
\* coercion of the numbers, version resolution, the three derivations, the
\* three dispatch calls; the join is made on the tables as read, so that the
\* merged table holds raw strings: the keys are compared as strings.
MergeBeforeCoercion ==
    /\ Len(trace) <= Len(StageOrder)
    /\ \A i \in 1..Len(trace) : trace[i] = StageOrder[i]
    /\ JustMerged =>
          \A k \in 1..Len(df) :
              /\ \A c \in DOMAIN df[k] : df[k][c] = NaN \/ IsStr(df[k][c])
              /\ \E n \in 1..3 : \E i \in 1..Len(Inputs[n][1]) :
                    Triple(Inputs[n][1][i]) = Triple(df[k])

\* C10 witness: the versions "1" and "01" of one pair, the same number, were
\* not joined: the merged table has a row for each.
MergeBeforeCoercionWitness ==
    /\ JustMerged
    /\ Len(geral) = 1
    /\ Len(complemento) = 1
    /\ \E i, j \in 1..Len(df) :
          /\ Pair(df[i]) = Pair(df[j])
          /\ df[i]["Versao"] = Str(<< 1 >>)
          /\ df[j]["Versao"] = Str(<< 0, 1 >>)
          /\ ToNumeric(df[i]["Versao"]) = ToNumeric(df[j]["Versao"])
          /\ df[i]["Rendimento_Distribuido"] = NaN
          /\ df[j]["Patrimonio_Liquido"] = NaN

=============================================================================
